---- MODULE Spec2Model ----
(***************************************************************************)
(* Model of talahron/MissionChallenge:                                     *)
(*   app/services/gemini_service.py     GeminiService                      *)
(*   app/services/image_service.py      ImageService                       *)
(*   app/agents/challenge_tool.py       ChallengeGenerationTool._execute   *)
(*   app/agents/evaluation_tool.py      EvaluationTool._execute            *)
(*   app/agents/user_interaction_agent.py                                  *)
(*                          UserInteractionAgent.process_user_interaction  *)
(*   app/ui/gradio_interface.py         GradioInterface handlers           *)
(*                                                                         *)
(* Text.  A Python str is modelled as a sequence of chunks.  A chunk is a  *)
(* piece of text that either is exactly one of the literals the program    *)
(* searches for with `in` ("מצטער", "שגיאה", "Error:", ...), or contains   *)
(* none of them.  `x in s` is containment of a contiguous subsequence,     *)
(* string concatenation and f-string interpolation are \o.  Every literal  *)
(* of the program is written as the chunk sequence that exposes exactly    *)
(* the searched literals it contains.                                      *)
(*                                                                         *)
(* Coroutines.  Each async method runs without interruption up to its      *)
(* `await self.gemini_service.generate_text(...)`, is suspended there, and *)
(* runs to its return when the awaited call completes.  One action models  *)
(* the handler up to the suspension point (or to its return when it does   *)
(* not await), one action per suspension point models the rest.            *)
(***************************************************************************)
EXTENDS Naturals, Sequences, FiniteSets, TLC

VARIABLES
    current_challenge_topic,  \* UserInteractionAgent.current_challenge_topic
    inv,                      \* the invocations of process_user_interaction, by slot
    tool,                     \* a direct invocation of a tool's _execute
    gemini_service,           \* a GeminiService: its construction, its client, a call of generate_text
    image_service,            \* an ImageService: its construction, its model, a call of generate_caption
    ui                        \* GradioInterface: the topic textbox and a handler in progress

vars == <<current_challenge_topic, inv, tool, gemini_service, image_service, ui>>

----------------------------------------------------------------------------
(* Bounds of the model *)

\* longest user message, in chunks
MaxMsgLen == 2
\* longest text the backend generates, in chunks
MaxTextLen == 2
\* invocations of process_user_interaction that can be in flight together
MaxInv == 2

Slots == 1..MaxInv

Seqs(S, n) == UNION {[1..k -> S] : k \in 0..n}

----------------------------------------------------------------------------
(* Python values *)

\* None.  The chunk is reserved: no text contains it.
NONE == <<"<None>">>

\* bool(x) of an Optional[str]
Truthy(s) == s # NONE /\ s # <<>>

\* `sub in s` on str
Contains(s, sub) ==
    \E k \in 1..(Len(s) + 1) :
        /\ k + Len(sub) - 1 <= Len(s)
        /\ SubSeq(s, k, k + Len(sub) - 1) = sub

\* outcome of a call: it returns a value or raises an exception
Return(v) == [kind |-> "return", value |-> v]
Raise(e) == [kind |-> "raise", value |-> e]
\* no outcome yet
Pending == [kind |-> "pending", value |-> <<>>]

\* chunks with an upper-case letter and their str.lower()
LowerChunk(c) == IF c = "Hello" THEN "hello" ELSE c
Lower(s) == [k \in DOMAIN s |-> LowerChunk(s[k])]

----------------------------------------------------------------------------
(* Literals *)

SORRY == <<"מצטער">>
SHGIA == <<"שגיאה">>
ERROR_COLON == <<"Error:">>
PLACEHOLDER == <<"Placeholder response">>

RulesKeywords == {<<"כללים">>, <<"הוראות">>, <<"איך משחקים">>}
NewChallengeKeywords == {<<"אתגר חדש">>, <<"צור אתגר">>}

game_rules == <<"ברוכים הבאים לאתגר התמונות! המשחק עובד כך: ...">>
NEW_CHALLENGE_BANNER == <<"האתגר החדש שלכם הוא:">>
NEWLINE == <<"\n">>
NO_CHALLENGE_YET == <<"לא נוצר עדיין אתגר. אנא בקשו 'אתגר חדש' תחילה.">>
RESULTS_BANNER == <<"תוצאות ההערכה:">>
NOT_SURE == <<"אני לא בטוח איך להגיב על זה. אפשר לנסות משהו אחר?">>
AGENT_INTERNAL_ERROR == <<"מצטער", ", היתה לי ", "שגיאה", " פנימית.">>

CHALLENGE_APOLOGY == <<"מצטער", ", היתה בעיה ביצירת האתגר כרגע. נסה שוב מאוחר יותר.">>
CHALLENGE_INTERNAL_ERROR == <<"שגיאה", " פנימית בעת יצירת אתגר.">>

EVALUATION_MISSING_DATA == <<"שגיאה", ": יש לספק את נושא האתגר ושני תיאורי תמונות לצורך הערכה.">>
EVALUATION_APOLOGY == <<"מצטער", ", היתה בעיה בעיבוד ההערכה כרגע. נסה שוב מאוחר יותר.">>
EVALUATION_INTERNAL_ERROR == <<"שגיאה", " פנימית בעת הערכת התוצאות.">>

LLM_NO_CONTENT == <<"Error:", " LLM returned no usable content or request was blocked.">>
LLM_CALL_FAILED == <<"Error:", " LLM call failed - ">>

----------------------------------------------------------------------------
(* Inputs *)

MsgChunks == {"כללים", "הוראות", "איך משחקים", "אתגר חדש", "צור אתגר", "Hello"}
Messages == Seqs(MsgChunks, MaxMsgLen)

TextChunks == {"כובע", "מגדל", "מצטער", "שגיאה", "Error:", "Placeholder response"}
Texts == Seqs(TextChunks, MaxTextLen)

Captions == {<<>>, <<"בננה">>, <<"צלחת", "ריקה">>}
\* Optional[Dict[str, str]].  is_dict is FALSE for None; in a dict, a key that
\* is absent has the value NONE, which is what dict.get returns for it.
NoImageCaptions == [is_dict |-> FALSE, caption1 |-> NONE, caption2 |-> NONE]
ImageCaptions ==
    {NoImageCaptions}
        \cup [is_dict : {TRUE}, caption1 : Captions \cup {NONE},
                                caption2 : Captions \cup {NONE}]
\* bool(d): None and the empty dict are falsy
DictTruthy(d) == d.is_dict /\ (d.caption1 # NONE \/ d.caption2 # NONE)

ExceptionMessages == {<<"503 unavailable">>}

----------------------------------------------------------------------------
(* google.generativeai: what client.generate_content can do *)

\* a part of a response: it has a text attribute or not
Parts ==
    {[has_text |-> FALSE, text |-> <<>>]}
        \cup [has_text : {TRUE}, text : {<<>>} \cup {<<c>> : c \in TextChunks}]

\* response.text: the attribute is absent, has a value, or raises on access
\* (the SDK raises ValueError when the response holds no valid part)
TextAttrs ==
    {[kind |-> "absent", value |-> <<>>]}
        \cup [kind : {"raises"}, value : ExceptionMessages]
        \cup [kind : {"value"}, value : Texts]

Join(ps) ==
    LET RECURSIVE J(_)
        J(k) == IF k > Len(ps) THEN <<>>
                ELSE (IF ps[k].has_text THEN ps[k].text ELSE <<>>) \o J(k + 1)
    IN J(1)

\* the parts that carry text t, one chunk per part
PartsOf(t) == [k \in DOMAIN t |-> [has_text |-> TRUE, text |-> <<t[k]>>]]

\* Responses: text carried by the parts (response.text then is their
\* concatenation), and responses whose parts carry no text, with any
\* response.text.
Responses ==
    {[parts |-> PartsOf(t), text |-> [kind |-> "value", value |-> t]] :
        t \in Texts \ {<<>>}}
    \cup [parts : Seqs({p \in Parts : p.text = <<>>}, 1), text : TextAttrs]

\* outcomes of client.generate_content(prompt)
GenerateContentOutcomes ==
    {Return(r) : r \in Responses} \cup {Raise(m) : m \in ExceptionMessages}

----------------------------------------------------------------------------
(* app/services/gemini_service.py *)

\* faulty variant: only the text of the first part is taken
generate_text_firstPart(outcome) ==
    IF outcome.kind = "raise"
    THEN Return(LLM_CALL_FAILED \o outcome.value)
    ELSE LET response == outcome.value
             full_text == IF response.parts # <<>> /\ response.parts[1].has_text
                          THEN response.parts[1].text ELSE <<>>
         IN IF response.parts # <<>> /\ full_text # <<>>
            THEN Return(full_text)
            ELSE IF response.text.kind = "raises"
            THEN Return(LLM_CALL_FAILED \o response.text.value)
            ELSE IF response.text.kind = "value" /\ response.text.value # <<>>
            THEN Return(response.text.value)
            ELSE Return(LLM_NO_CONTENT)

\* GeminiService.generate_text, given the outcome of generate_content.
\* An exception anywhere in the try block, the access to response.text
\* included, is caught and formatted.
generate_text(outcome) ==
    IF outcome.kind = "raise"
    THEN Return(LLM_CALL_FAILED \o outcome.value)
    ELSE LET response == outcome.value
             full_text == Join(response.parts)
         IN IF response.parts # <<>> /\ full_text # <<>>
            THEN Return(full_text)
            ELSE IF response.text.kind = "raises"
            THEN Return(LLM_CALL_FAILED \o response.text.value)
            ELSE IF response.text.kind = "value" /\ response.text.value # <<>>
            THEN Return(response.text.value)
            ELSE Return(LLM_NO_CONTENT)

\* what awaiting GeminiService.generate_text can yield: it makes one call
\* of client.generate_content and returns when that call completes
GeminiOutcomes == {generate_text(o) : o \in GenerateContentOutcomes}

\* what awaiting generate_text of any object passed as gemini_service can
\* yield (the tools and the agent only call generate_text on it): a str or
\* an exception
ServiceOutcomes ==
    GeminiOutcomes \cup {Return(t) : t \in Texts} \cup {Raise(m) : m \in ExceptionMessages}

\* "Error: Gemini client not initialized."
CLIENT_NOT_INITIALIZED == <<"Error:", " Gemini client not initialized.">>
\* the prefixes of the RuntimeError messages of GeminiService.__init__
INIT_FAILED_CONFIGURATION == <<"GeminiService initialization failed due to configuration: ">>
INIT_FAILED == <<"GeminiService initialization failed: ">>

\* an exception, by its type and message
Exception(type, message) == [kind |-> "raise", type |-> type, value |-> message]
\* a call of the constructor's try block returned
Returned(v) == [kind |-> "return", type |-> "", value |-> v]
NotYet == [kind |-> "pending", type |-> "", value |-> <<>>]

\* get_google_application_credentials(): the path, or ValueError when the
\* variable is not set or names no file; any other exception it may raise
CredentialOutcomes ==
    {Returned(<<"fake/path/to/creds.json">>),
     Exception("ValueError", <<"Credentials not set">>),
     Exception("OSError", <<"stat failed">>)}

\* genai.GenerativeModel(model_name): the client, or an exception
ClientOutcomes ==
    {Returned(<<"client">>), Exception("Exception", <<"Model init failed">>)}

\* the prompts of the direct calls of generate_text
Prompts == {<<>>, <<"Test prompt">>, <<"Test prompt", " for API error">>}

\* a call of GeminiService.generate_text: where it is, its prompt, the
\* outcome of client.generate_content (backend), its own outcome (result)
\* and the calls of client.generate_content it made
IdleGeminiCall ==
    [pc |-> "idle",
     prompt |-> <<>>,
     backend |-> Pending,
     result |-> Pending,
     generate_content_calls |-> 0]

\* no GeminiService has been constructed
NoGeminiService ==
    [state |-> "unconstructed",
     client |-> FALSE,
     credentials |-> NotYet,
     client_creation |-> NotYet,
     init_outcome |-> NotYet,
     call |-> IdleGeminiCall]

\* faulty variant: a failed initialization is logged and an instance without
\* client is returned, as ImageService.__init__ does
GeminiService_construct_swallows(credentials, client_creation) ==
    IF credentials.kind = "raise" \/ client_creation.kind = "raise"
    THEN [NoGeminiService EXCEPT !.state = "constructed",
                                 !.client = FALSE,
                                 !.credentials = credentials,
                                 !.client_creation =
                                     IF credentials.kind = "raise"
                                     THEN NotYet ELSE client_creation,
                                 !.init_outcome = Returned(<<"GeminiService">>)]
    ELSE [NoGeminiService EXCEPT !.state = "constructed",
                                 !.client = TRUE,
                                 !.credentials = credentials,
                                 !.client_creation = client_creation,
                                 !.init_outcome = Returned(<<"GeminiService">>)]

\* GeminiService.__init__, given what the credential lookup and the creation
\* of the client do: the instance, or the RuntimeError it raises.  The
\* client is not created when the lookup raised.
GeminiService_construct(credentials, client_creation) ==
    IF credentials.kind = "raise"
    THEN [NoGeminiService EXCEPT
              !.state = "failed",
              !.credentials = credentials,
              !.init_outcome =
                  Exception("RuntimeError",
                            (IF credentials.type = "ValueError"
                             THEN INIT_FAILED_CONFIGURATION ELSE INIT_FAILED)
                                \o credentials.value)]
    ELSE IF client_creation.kind = "raise"
    THEN [NoGeminiService EXCEPT
              !.state = "failed",
              !.credentials = credentials,
              !.client_creation = client_creation,
              !.init_outcome =
                  Exception("RuntimeError", INIT_FAILED \o client_creation.value)]
    ELSE [NoGeminiService EXCEPT
              !.state = "constructed",
              !.client = TRUE,
              !.credentials = credentials,
              !.client_creation = client_creation,
              !.init_outcome = Returned(<<"GeminiService">>)]

\* GeminiService(): the constructor runs
GeminiService_init ==
    /\ gemini_service.state = "unconstructed"
    /\ \E credentials \in CredentialOutcomes, client_creation \in ClientOutcomes :
           gemini_service' = GeminiService_construct(credentials, client_creation)
    /\ UNCHANGED <<current_challenge_topic, inv, tool, image_service, ui>>

\* generate_text(prompt) on a constructed instance, up to its await of
\* asyncio.to_thread(self.client.generate_content, prompt), or to its return
\* when there is no client
GeminiService_generate_text ==
    /\ gemini_service.state = "constructed"
    /\ gemini_service.call.pc = "idle"
    /\ \E prompt \in Prompts :
           gemini_service' =
               [gemini_service EXCEPT !.call =
                   IF ~gemini_service.client
                   THEN [IdleGeminiCall EXCEPT !.pc = "returned",
                                               !.prompt = prompt,
                                               !.result = Return(CLIENT_NOT_INITIALIZED)]
                   ELSE [IdleGeminiCall EXCEPT !.pc = "to_thread",
                                               !.prompt = prompt,
                                               !.generate_content_calls = 1]]
    /\ UNCHANGED <<current_challenge_topic, inv, tool, image_service, ui>>

\* client.generate_content completes in its thread and generate_text runs
\* to its return
GeminiService_generate_text_resume ==
    /\ gemini_service.call.pc = "to_thread"
    /\ \E outcome \in GenerateContentOutcomes :
           gemini_service' =
               [gemini_service EXCEPT !.call.pc = "returned",
                                      !.call.backend = outcome,
                                      !.call.result = generate_text(outcome)]
    /\ UNCHANGED <<current_challenge_topic, inv, tool, image_service, ui>>

\* the caller has taken the text
GeminiService_collect ==
    /\ gemini_service.call.pc = "returned"
    /\ gemini_service' = [gemini_service EXCEPT !.call = IdleGeminiCall]
    /\ UNCHANGED <<current_challenge_topic, inv, tool, image_service, ui>>

----------------------------------------------------------------------------
(* app/services/image_service.py *)

MODEL_NOT_AVAILABLE == <<"Error:", " Image captioning model not available.">>
NO_IMAGE_PROVIDED == <<"Error:", " No image provided for captioning.">>
CAPTION_ERROR == <<"Error generating image caption.">>
ASYNC_CAPTION_ERROR == <<"Error during async caption processing.">>

\* Optional[Image.Image]: is_image is FALSE for None; an image has a mode
ImageModes == {"RGB", "RGBA", "L"}
NoImage == [is_image |-> FALSE, mode |-> ""]
Images == {NoImage} \cup [is_image : {TRUE}, mode : ImageModes]

\* image_pil.convert(mode)
convert(image_pil, mode) == [image_pil EXCEPT !.mode = mode]

\* What the try block of ImageService.__init__ does: which of processor and
\* model it assigns before it ends or an exception ends it.  The processor
\* is loaded first; os.makedirs runs before both.
LoadOutcomes ==
    {[processor |-> TRUE, model |-> TRUE, error |-> NotYet],
     [processor |-> FALSE, model |-> FALSE,
      error |-> Exception("OSError", <<"hf_cache: permission denied">>)],
     [processor |-> FALSE, model |-> FALSE,
      error |-> Exception("Exception", <<"Failed to load processor">>)],
     [processor |-> TRUE, model |-> FALSE,
      error |-> Exception("Exception", <<"Failed to load model">>)]}

\* what ends the inference of a call, if anything: asyncio.to_thread,
\* image_pil.convert, the processor, model.generate or processor.decode raises
InferenceFailures == {"none", "to_thread", "convert", "processor", "generate", "decode"}

\* a call of ImageService.generate_caption: where it is, its argument, the
\* image handed to the processor, the calls of convert and of model.generate
\* it made, and its outcome
IdleCaptionCall ==
    [pc |-> "idle",
     image_pil |-> NoImage,
     processor_input |-> NoImage,
     convert_calls |-> 0,
     inference_runs |-> 0,
     result |-> Pending]

\* no ImageService has been constructed
NoImageService ==
    [state |-> "unconstructed",
     processor |-> FALSE,
     model |-> FALSE,
     loads |-> 0,
     load_error |-> NotYet,
     init_outcome |-> NotYet,
     call |-> IdleCaptionCall]

\* ImageService.__init__, given what the loading does: processor and model
\* are None, then the try block assigns them; an exception is logged and
\* not raised again, so the instance is returned in every case
ImageService_construct(load) ==
    [NoImageService EXCEPT !.state = "constructed",
                           !.processor = load.processor,
                           !.model = load.model,
                           !.loads = 1,
                           !.load_error = load.error,
                           !.init_outcome = Returned(<<"ImageService">>)]

\* faulty variant: only the processor is tested
ModelAvailable_processorOnly(service) == service.processor

\* the negation of `not self.model or not self.processor`
ModelAvailable(service) == service.model /\ service.processor

\* faulty variant: only an alpha channel is converted
NeedsConversion_alphaOnly(image_pil) == image_pil.mode = "RGBA"

\* image_pil.mode != "RGB"
NeedsConversion(image_pil) == image_pil.mode # "RGB"

\* faulty variant: the argument is tested before the model
GenerateCaptionCall_imageFirst(service, image_pil) ==
    IF ~image_pil.is_image
    THEN [IdleCaptionCall EXCEPT !.pc = "returned",
                                 !.image_pil = image_pil,
                                 !.result = Return(NO_IMAGE_PROVIDED)]
    ELSE IF ~ModelAvailable(service)
    THEN [IdleCaptionCall EXCEPT !.pc = "returned",
                                 !.image_pil = image_pil,
                                 !.result = Return(MODEL_NOT_AVAILABLE)]
    ELSE [IdleCaptionCall EXCEPT !.pc = "to_thread", !.image_pil = image_pil]

\* generate_caption(image_pil) up to its await of asyncio.to_thread, or to
\* its return when the model is not loaded or the image is None
GenerateCaptionCall(service, image_pil) ==
    IF ~ModelAvailable(service)
    THEN [IdleCaptionCall EXCEPT !.pc = "returned",
                                 !.image_pil = image_pil,
                                 !.result = Return(MODEL_NOT_AVAILABLE)]
    ELSE IF ~image_pil.is_image
    THEN [IdleCaptionCall EXCEPT !.pc = "returned",
                                 !.image_pil = image_pil,
                                 !.result = Return(NO_IMAGE_PROVIDED)]
    ELSE [IdleCaptionCall EXCEPT !.pc = "to_thread", !.image_pil = image_pil]

\* _blocking_generate_caption(image_pil) of a suspended call, where
\* `failure` names the step that raises and `caption` is what decode returns
blocking_generate_caption(service, call, failure, caption) ==
    LET image_pil == call.image_pil
        rgb == IF NeedsConversion(image_pil) THEN convert(image_pil, "RGB")
               ELSE image_pil
        converted == [call EXCEPT !.pc = "returned",
                                  !.convert_calls =
                                      IF NeedsConversion(image_pil) THEN 1 ELSE 0]
    IN  IF ~ModelAvailable(service)
        THEN [call EXCEPT !.pc = "returned", !.result = Return(MODEL_NOT_AVAILABLE)]
        ELSE IF ~image_pil.is_image
        THEN [call EXCEPT !.pc = "returned", !.result = Return(NO_IMAGE_PROVIDED)]
        ELSE IF NeedsConversion(image_pil) /\ failure = "convert"
        THEN [converted EXCEPT !.result = Return(CAPTION_ERROR)]
        ELSE IF failure = "processor"
        THEN [converted EXCEPT !.processor_input = rgb,
                               !.result = Return(CAPTION_ERROR)]
        ELSE IF failure \in {"generate", "decode"}
        THEN [converted EXCEPT !.processor_input = rgb,
                               !.inference_runs = 1,
                               !.result = Return(CAPTION_ERROR)]
        ELSE [converted EXCEPT !.processor_input = rgb,
                               !.inference_runs = 1,
                               !.result = Return(caption)]

\* generate_caption from its await to its return: the thread ran
\* _blocking_generate_caption, or asyncio.to_thread raised
GenerateCaptionResume(service, call, failure, caption) ==
    IF failure = "to_thread"
    THEN [call EXCEPT !.pc = "returned", !.result = Return(ASYNC_CAPTION_ERROR)]
    ELSE blocking_generate_caption(service, call, failure, caption)

\* ImageService(): the constructor runs
ImageService_init ==
    /\ image_service.state = "unconstructed"
    /\ \E load \in LoadOutcomes :
           image_service' = ImageService_construct(load)
    /\ UNCHANGED <<current_challenge_topic, inv, tool, gemini_service, ui>>

\* a caller awaits generate_caption(image_pil) on the instance
ImageService_generate_caption ==
    /\ image_service.state = "constructed"
    /\ image_service.call.pc = "idle"
    /\ \E image_pil \in Images :
           image_service' =
               [image_service EXCEPT !.call =
                                         GenerateCaptionCall(image_service, image_pil)]
    /\ UNCHANGED <<current_challenge_topic, inv, tool, gemini_service, ui>>

\* the thread of a suspended call ends and generate_caption returns
ImageService_generate_caption_resume ==
    /\ image_service.call.pc = "to_thread"
    /\ \E failure \in InferenceFailures, caption \in Captions :
           image_service' =
               [image_service EXCEPT !.call =
                   GenerateCaptionResume(image_service, image_service.call,
                                         failure, caption)]
    /\ UNCHANGED <<current_challenge_topic, inv, tool, gemini_service, ui>>

\* the caller has taken the caption
ImageService_collect ==
    /\ image_service.call.pc = "returned"
    /\ image_service' = [image_service EXCEPT !.call = IdleCaptionCall]
    /\ UNCHANGED <<current_challenge_topic, inv, tool, gemini_service, ui>>

----------------------------------------------------------------------------
(* app/agents/challenge_tool.py *)

challenge_prompt_template == <<"אתה מנחה משחק אתגרים יצירתי ומהנה. ...">>

\* faulty variant: no except clause, the exception of generate_text propagates
ChallengeGenerationTool_execute_propagates(outcome) ==
    IF outcome.kind = "raise"
    THEN outcome
    ELSE LET topic == outcome.value
         IN IF ~Truthy(topic) \/ Contains(topic, PLACEHOLDER) \/ Contains(topic, ERROR_COLON)
            THEN Return(CHALLENGE_APOLOGY)
            ELSE Return(topic)

\* faulty variant: a text with "Error:" is taken for a topic
ChallengeGenerationTool_execute_noErrorCheck(outcome) ==
    IF outcome.kind = "raise"
    THEN Return(CHALLENGE_INTERNAL_ERROR)
    ELSE LET topic == outcome.value
         IN IF ~Truthy(topic) \/ Contains(topic, PLACEHOLDER)
            THEN Return(CHALLENGE_APOLOGY)
            ELSE Return(topic)

\* ChallengeGenerationTool._execute from the completion of generate_text
ChallengeGenerationTool_execute(outcome) ==
    IF outcome.kind = "raise"
    THEN Return(CHALLENGE_INTERNAL_ERROR)
    ELSE LET topic == outcome.value
         IN IF ~Truthy(topic) \/ Contains(topic, PLACEHOLDER) \/ Contains(topic, ERROR_COLON)
            THEN Return(CHALLENGE_APOLOGY)
            ELSE Return(topic)

----------------------------------------------------------------------------
(* app/agents/evaluation_tool.py *)

\* faulty variant: the two captions change places
EvaluationInput_swapped(topic, caption1, caption2) ==
    [topic |-> topic, caption1 |-> caption2, caption2 |-> caption1]

\* EvaluationInput
EvaluationInput(topic, caption1, caption2) ==
    [topic |-> topic, caption1 |-> caption1, caption2 |-> caption2]
NoEvaluationInput == EvaluationInput(NONE, NONE, NONE)

\* faulty variant: the topic is not validated
EvaluationTool_inputs_complete_captionsOnly(inputs) ==
    Truthy(inputs.caption1) /\ Truthy(inputs.caption2)

\* all([inputs.topic, inputs.caption1, inputs.caption2])
EvaluationTool_inputs_complete(inputs) ==
    Truthy(inputs.topic) /\ Truthy(inputs.caption1) /\ Truthy(inputs.caption2)

\* evaluation_prompt_template.format(topic=..., caption1=..., caption2=...)
EvaluationTool_prompt(inputs) ==
    <<"אתה שופט מומחה וחסר פניות ... בהתחשב באתגר: '">> \o inputs.topic
        \o <<"' ... תמונה 1: ">> \o inputs.caption1
        \o <<"\n", "תמונה 2: ">> \o inputs.caption2
        \o <<"\n\n ... הסבר קצר לזכייה: [ההסבר הקצר כאן]">>

\* EvaluationTool._execute from the completion of generate_text
EvaluationTool_execute(outcome) ==
    IF outcome.kind = "raise"
    THEN Return(EVALUATION_INTERNAL_ERROR)
    ELSE LET result == outcome.value
         IN IF ~Truthy(result) \/ Contains(result, PLACEHOLDER) \/ Contains(result, ERROR_COLON)
            THEN Return(EVALUATION_APOLOGY)
            ELSE Return(result)

----------------------------------------------------------------------------
(* app/agents/user_interaction_agent.py *)

system_prompt == <<"אתה 'מנחה משחק אתגר התמונות', סוכן AI ידידותי ...">>

\* faulty variant: the keyword "איך משחקים" is missing from the list
IsRulesRequest_missingKeyword(user_message) ==
    \E keyword \in {<<"כללים">>, <<"הוראות">>} :
        Contains(Lower(user_message), keyword)

\* any(keyword in user_message.lower() for keyword in [...])
IsRulesRequest(user_message) ==
    \E keyword \in RulesKeywords : Contains(Lower(user_message), keyword)

\* "אתגר חדש" in user_message or "צור אתגר" in user_message
IsNewChallengeRequest(user_message) ==
    \E keyword \in NewChallengeKeywords : Contains(user_message, keyword)

\* faulty variant: one non-empty caption is enough
HasBothCaptions_either(image_captions) ==
    /\ DictTruthy(image_captions)
    /\ (Truthy(image_captions.caption1) \/ Truthy(image_captions.caption2))

\* faulty variant: the two keys are there, whatever their values
HasBothCaptions_keysPresent(image_captions) ==
    /\ image_captions.is_dict
    /\ image_captions.caption1 # NONE
    /\ image_captions.caption2 # NONE

\* image_captions and image_captions.get("caption1") and image_captions.get("caption2")
HasBothCaptions(image_captions) ==
    /\ DictTruthy(image_captions)
    /\ Truthy(image_captions.caption1)
    /\ Truthy(image_captions.caption2)

\* faulty variant: the new-challenge test comes before the rules test
Intent_newChallengeFirst(user_message, image_captions) ==
    IF IsNewChallengeRequest(user_message) THEN "new_challenge"
    ELSE IF IsRulesRequest(user_message) THEN "rules"
    ELSE IF HasBothCaptions(image_captions) THEN "evaluation"
    ELSE "generic"

\* faulty variant: the captions test comes before the new-challenge test
Intent_evaluationFirst(user_message, image_captions) ==
    IF IsRulesRequest(user_message) THEN "rules"
    ELSE IF HasBothCaptions(image_captions) THEN "evaluation"
    ELSE IF IsNewChallengeRequest(user_message) THEN "new_challenge"
    ELSE "generic"

\* the branch process_user_interaction takes: the first test that matches
Intent(user_message, image_captions) ==
    IF IsRulesRequest(user_message) THEN "rules"
    ELSE IF IsNewChallengeRequest(user_message) THEN "new_challenge"
    ELSE IF HasBothCaptions(image_captions) THEN "evaluation"
    ELSE "generic"

\* faulty variant: only "מצטער" is looked for
IsChallengeFailure_onlySorry(topic_generated) ==
    Contains(topic_generated, SORRY)

\* faulty variant: only "שגיאה" is looked for
IsChallengeFailure_onlyError(topic_generated) ==
    Contains(topic_generated, SHGIA)

\* "מצטער" in topic_generated or "שגיאה" in topic_generated
IsChallengeFailure(topic_generated) ==
    Contains(topic_generated, SORRY) \/ Contains(topic_generated, SHGIA)

\* faulty variant: the banner and the topic are joined without the newline
NewChallengeResponse_noNewline(topic) ==
    NEW_CHALLENGE_BANNER \o topic

\* f"האתגר החדש שלכם הוא:\n{self.current_challenge_topic}"
NewChallengeResponse(topic) ==
    NEW_CHALLENGE_BANNER \o NEWLINE \o topic

\* faulty variant: the active-challenge check is skipped
NoActiveChallenge_never(topic) == FALSE

\* not self.current_challenge_topic
NoActiveChallenge(topic) == ~Truthy(topic)

\* f"תוצאות ההערכה:\n{evaluation_result}"
EvaluationResponse(evaluation_result) ==
    RESULTS_BANNER \o NEWLINE \o evaluation_result

\* the prompt of the generic response
generic_prompt_for_llm(topic, user_message) ==
    system_prompt \o <<"\n\n", "האתגר הנוכחי הוא: ">>
        \o (IF Truthy(topic) THEN topic ELSE <<"לא נקבע עדיין">>)
        \o <<"\n\n", "המשתמש אומר: \"">> \o user_message
        \o <<"\"\n\n", "כיצד עליך להגיב באופן מועיל ושיחתי ...">>

\* the try block of the generic response, from the completion of generate_text
GenericResponse(outcome) ==
    IF outcome.kind = "raise"
    THEN Return(AGENT_INTERNAL_ERROR)
    ELSE LET response == outcome.value
         IN IF Truthy(response) /\ ~Contains(response, PLACEHOLDER)
            THEN Return(response)
            ELSE Return(NOT_SURE)

\* An invocation of process_user_interaction: where it is (pc), its
\* arguments, what it passed to the tools and to generate_text, the number
\* of calls it made, the number of calls of client.generate_content that
\* completed for it, and its outcome.
IdleInvocation ==
    [pc |-> "idle",
     user_message |-> <<>>,
     image_captions |-> NoImageCaptions,
     eval_input |-> NoEvaluationInput,
     prompt |-> NONE,
     tool_result |-> Pending,
     response |-> Pending,
     challenge_tool_calls |-> 0,
     evaluation_tool_calls |-> 0,
     generate_text_calls |-> 0,
     generate_content_calls |-> 0]

\* process_user_interaction from its call to its first await, or to its
\* return when it does not await: the invocation's record after it
Dispatch(topic, user_message, image_captions) ==
    LET called == [IdleInvocation EXCEPT !.user_message = user_message,
                                         !.image_captions = image_captions]
        intent == Intent(user_message, image_captions)
        eval_input == EvaluationInput(topic, image_captions.caption1,
                                      image_captions.caption2)
    IN  IF intent = "rules"
        THEN [called EXCEPT !.pc = "returned", !.response = Return(game_rules)]
        ELSE IF intent = "new_challenge"
        THEN [called EXCEPT !.pc = "await_challenge",
                            !.challenge_tool_calls = 1,
                            !.prompt = challenge_prompt_template,
                            !.generate_text_calls = 1]
        ELSE IF intent = "evaluation"
        THEN IF NoActiveChallenge(topic)
             THEN [called EXCEPT !.pc = "returned",
                                 !.response = Return(NO_CHALLENGE_YET)]
             ELSE IF ~EvaluationTool_inputs_complete(eval_input)
             THEN [called EXCEPT !.pc = "returned",
                                 !.eval_input = eval_input,
                                 !.evaluation_tool_calls = 1,
                                 !.tool_result = Return(EVALUATION_MISSING_DATA),
                                 !.response =
                                     Return(EvaluationResponse(EVALUATION_MISSING_DATA))]
             ELSE [called EXCEPT !.pc = "await_evaluation",
                                 !.eval_input = eval_input,
                                 !.evaluation_tool_calls = 1,
                                 !.prompt = EvaluationTool_prompt(eval_input),
                                 !.generate_text_calls = 1]
        ELSE [called EXCEPT !.pc = "await_generic",
                            !.prompt = generic_prompt_for_llm(topic, user_message),
                            !.generate_text_calls = 1]

\* a caller invokes process_user_interaction(user_message, image_captions)
\* in slot i, with arguments from the given sets
process_user_interactionOn(i, user_messages, captions) ==
    /\ inv[i].pc = "idle"
    /\ \E user_message \in user_messages, image_captions \in captions :
           inv' = [inv EXCEPT ![i] = Dispatch(current_challenge_topic,
                                              user_message, image_captions)]
    /\ UNCHANGED <<current_challenge_topic, tool, gemini_service, image_service, ui>>

\* a caller invokes process_user_interaction with any arguments
process_user_interaction(i) ==
    process_user_interactionOn(i, Messages, ImageCaptions)

\* faulty variant: a failed generation leaves the topic of the challenge before
ResumeChallenge_keepsOnFailure(i) ==
    /\ inv[i].pc = "await_challenge"
    /\ \E outcome \in GeminiOutcomes :
         LET tool_result == ChallengeGenerationTool_execute(outcome)
             topic_generated == tool_result.value
         IN  IF tool_result.kind = "raise"
             THEN /\ inv' = [inv EXCEPT ![i].pc = "returned",
                                        ![i].generate_content_calls = @ + 1,
                                        ![i].tool_result = tool_result,
                                        ![i].response = tool_result]
                  /\ UNCHANGED current_challenge_topic
             ELSE IF IsChallengeFailure(topic_generated)
             THEN /\ current_challenge_topic' = current_challenge_topic
                  /\ inv' = [inv EXCEPT ![i].pc = "returned",
                                        ![i].generate_content_calls = @ + 1,
                                        ![i].tool_result = tool_result,
                                        ![i].response = Return(topic_generated)]
             ELSE /\ current_challenge_topic' = topic_generated
                  /\ inv' = [inv EXCEPT ![i].pc = "returned",
                                        ![i].generate_content_calls = @ + 1,
                                        ![i].tool_result = tool_result,
                                        ![i].response =
                                            Return(NewChallengeResponse(
                                                       current_challenge_topic'))]
    /\ UNCHANGED <<tool, gemini_service, image_service, ui>>

\* faulty variant: the response is built from the topic read before the write
ResumeChallengeOn_staleTopic(i, outcomes) ==
    /\ inv[i].pc = "await_challenge"
    /\ \E outcome \in outcomes :
         LET tool_result == ChallengeGenerationTool_execute(outcome)
             topic_generated == tool_result.value
         IN  IF IsChallengeFailure(topic_generated)
             THEN /\ current_challenge_topic' = NONE
                  /\ inv' = [inv EXCEPT ![i].pc = "returned",
                                        ![i].generate_content_calls = @ + 1,
                                        ![i].tool_result = tool_result,
                                        ![i].response = Return(topic_generated)]
             ELSE /\ current_challenge_topic' = topic_generated
                  /\ inv' = [inv EXCEPT ![i].pc = "returned",
                                        ![i].generate_content_calls = @ + 1,
                                        ![i].tool_result = tool_result,
                                        ![i].response =
                                            Return(NewChallengeResponse(
                                                       current_challenge_topic))]
    /\ UNCHANGED <<tool, gemini_service, image_service, ui>>

\* the new-challenge branch from the completion of the tool's generate_text
\* to the return, the call completing with one of `outcomes`.  Nothing is
\* awaited between the write of current_challenge_topic and the return.
ResumeChallengeOn(i, outcomes) ==
    /\ inv[i].pc = "await_challenge"
    /\ \E outcome \in outcomes :
         LET tool_result == ChallengeGenerationTool_execute(outcome)
             topic_generated == tool_result.value
         IN  IF tool_result.kind = "raise"
             THEN /\ inv' = [inv EXCEPT ![i].pc = "returned",
                                        ![i].generate_content_calls = @ + 1,
                                        ![i].tool_result = tool_result,
                                        ![i].response = tool_result]
                  /\ UNCHANGED current_challenge_topic
             ELSE IF IsChallengeFailure(topic_generated)
             THEN /\ current_challenge_topic' = NONE
                  /\ inv' = [inv EXCEPT ![i].pc = "returned",
                                        ![i].generate_content_calls = @ + 1,
                                        ![i].tool_result = tool_result,
                                        ![i].response = Return(topic_generated)]
             ELSE /\ current_challenge_topic' = topic_generated
                  /\ inv' = [inv EXCEPT ![i].pc = "returned",
                                        ![i].generate_content_calls = @ + 1,
                                        ![i].tool_result = tool_result,
                                        ![i].response =
                                            Return(NewChallengeResponse(
                                                       current_challenge_topic'))]
    /\ UNCHANGED <<tool, gemini_service, image_service, ui>>

\* the new-challenge branch resumed with any outcome of generate_text
ResumeChallenge(i) == ResumeChallengeOn(i, GeminiOutcomes)

\* faulty variant: a failed evaluation clears the topic, as a failed generation does
ResumeEvaluation_clearsOnFailure(i) ==
    /\ inv[i].pc = "await_evaluation"
    /\ \E outcome \in GeminiOutcomes :
         LET tool_result == EvaluationTool_execute(outcome)
         IN  /\ inv' = [inv EXCEPT ![i].pc = "returned",
                                   ![i].generate_content_calls = @ + 1,
                                   ![i].tool_result = tool_result,
                                   ![i].response =
                                       Return(EvaluationResponse(tool_result.value))]
             /\ current_challenge_topic' =
                    IF IsChallengeFailure(tool_result.value)
                    THEN NONE ELSE current_challenge_topic
    /\ UNCHANGED <<tool, gemini_service, image_service, ui>>

\* faulty variant: the tool's input is rebuilt from the topic of the moment
\* the call completes
ResumeEvaluationOn_rereadsTopic(i, outcomes) ==
    /\ inv[i].pc = "await_evaluation"
    /\ \E outcome \in outcomes :
         LET tool_result == EvaluationTool_execute(outcome)
         IN  inv' = [inv EXCEPT ![i].pc = "returned",
                                ![i].generate_content_calls = @ + 1,
                                ![i].eval_input.topic = current_challenge_topic,
                                ![i].tool_result = tool_result,
                                ![i].response =
                                    Return(EvaluationResponse(tool_result.value))]
    /\ UNCHANGED <<current_challenge_topic, tool, gemini_service, image_service, ui>>

\* the evaluation branch from the completion of the tool's generate_text to
\* the return, the call completing with one of `outcomes`
ResumeEvaluationOn(i, outcomes) ==
    /\ inv[i].pc = "await_evaluation"
    /\ \E outcome \in outcomes :
         LET tool_result == EvaluationTool_execute(outcome)
         IN  inv' = [inv EXCEPT ![i].pc = "returned",
                                ![i].generate_content_calls = @ + 1,
                                ![i].tool_result = tool_result,
                                ![i].response =
                                    IF tool_result.kind = "raise" THEN tool_result
                                    ELSE Return(EvaluationResponse(
                                                    tool_result.value))]
    /\ UNCHANGED <<current_challenge_topic, tool, gemini_service, image_service, ui>>

\* the evaluation branch resumed with any outcome of generate_text
ResumeEvaluation(i) == ResumeEvaluationOn(i, GeminiOutcomes)

\* faulty variant: a call that failed is made once more
ResumeGeneric_retries(i) ==
    /\ inv[i].pc = "await_generic"
    /\ \E outcome \in GeminiOutcomes :
           inv' = IF /\ Contains(outcome.value, ERROR_COLON)
                     /\ inv[i].generate_content_calls = 0
                  THEN [inv EXCEPT ![i].generate_content_calls = @ + 1]
                  ELSE [inv EXCEPT ![i].pc = "returned",
                                   ![i].generate_content_calls = @ + 1,
                                   ![i].response = GenericResponse(outcome)]
    /\ UNCHANGED <<current_challenge_topic, tool, gemini_service, image_service, ui>>

\* faulty variant: a call that failed is made again, and nothing resumes the
\* invocation when the second call completes
ResumeGenericOn_awaitsRetry(i, outcomes) ==
    /\ inv[i].pc = "await_generic"
    /\ \E outcome \in outcomes :
           inv' = IF Contains(outcome.value, ERROR_COLON)
                  THEN [inv EXCEPT ![i].pc = "await_retry",
                                   ![i].generate_content_calls = @ + 1]
                  ELSE [inv EXCEPT ![i].pc = "returned",
                                   ![i].generate_content_calls = @ + 1,
                                   ![i].response = GenericResponse(outcome)]
    /\ UNCHANGED <<current_challenge_topic, tool, gemini_service, image_service, ui>>

\* the generic branch from the completion of generate_text to the return,
\* the call completing with one of `outcomes`
ResumeGenericOn(i, outcomes) ==
    /\ inv[i].pc = "await_generic"
    /\ \E outcome \in outcomes :
           inv' = [inv EXCEPT ![i].pc = "returned",
                              ![i].generate_content_calls = @ + 1,
                              ![i].response = GenericResponse(outcome)]
    /\ UNCHANGED <<current_challenge_topic, tool, gemini_service, image_service, ui>>

\* the generic branch resumed with any outcome of generate_text
ResumeGeneric(i) == ResumeGenericOn(i, GeminiOutcomes)

\* the caller has taken the response: the finished coroutine is discarded
Collect(i) ==
    /\ inv[i].pc = "returned"
    /\ inv' = [inv EXCEPT ![i] = IdleInvocation]
    /\ UNCHANGED <<current_challenge_topic, tool, gemini_service, image_service, ui>>

----------------------------------------------------------------------------
(* The tools invoked directly, with any object as gemini_service *)

DirectTopics == {<<>>, <<"כובע">>, <<"מגדל", "מצטער">>}
EvaluationInputs ==
    [topic : DirectTopics, caption1 : Captions, caption2 : Captions]

\* An invocation of a tool's _execute: where it is, which tool, its inputs,
\* the prompt it passed to generate_text, what generate_text yielded
\* (outcome), what the tool yielded (result), and the calls it made.
IdleTool ==
    [pc |-> "idle",
     name |-> "",
     inputs |-> NoEvaluationInput,
     prompt |-> NONE,
     outcome |-> Pending,
     result |-> Pending,
     generate_text_calls |-> 0]

\* ChallengeGenerationTool._execute up to its await
ChallengeGenerationTool_call ==
    /\ tool.pc = "idle"
    /\ tool' = [IdleTool EXCEPT !.pc = "await",
                                !.name = "ChallengeGenerator",
                                !.prompt = challenge_prompt_template,
                                !.generate_text_calls = 1]
    /\ UNCHANGED <<current_challenge_topic, inv, gemini_service, image_service, ui>>

\* EvaluationTool._execute up to its await, or to its return when data is missing
EvaluationTool_call ==
    /\ tool.pc = "idle"
    /\ \E inputs \in EvaluationInputs :
         tool' = IF ~EvaluationTool_inputs_complete(inputs)
                 THEN [IdleTool EXCEPT !.pc = "returned",
                                       !.name = "SubmissionEvaluator",
                                       !.inputs = inputs,
                                       !.result = Return(EVALUATION_MISSING_DATA)]
                 ELSE [IdleTool EXCEPT !.pc = "await",
                                       !.name = "SubmissionEvaluator",
                                       !.inputs = inputs,
                                       !.prompt = EvaluationTool_prompt(inputs),
                                       !.generate_text_calls = 1]
    /\ UNCHANGED <<current_challenge_topic, inv, gemini_service, image_service, ui>>

\* the awaited generate_text completes and the tool runs to its return
Tool_resume ==
    /\ tool.pc = "await"
    /\ \E outcome \in ServiceOutcomes :
         tool' = [tool EXCEPT !.pc = "returned",
                              !.outcome = outcome,
                              !.result = IF tool.name = "ChallengeGenerator"
                                         THEN ChallengeGenerationTool_execute(outcome)
                                         ELSE EvaluationTool_execute(outcome)]
    /\ UNCHANGED <<current_challenge_topic, inv, gemini_service, image_service, ui>>

\* the caller has taken the tool's result
Tool_collect ==
    /\ tool.pc = "returned"
    /\ tool' = IdleTool
    /\ UNCHANGED <<current_challenge_topic, inv, gemini_service, image_service, ui>>

----------------------------------------------------------------------------
(* app/ui/gradio_interface.py *)

\* the value of the topic textbox before the first click
TOPIC_OUTPUT_INITIAL == <<"לחץ על 'צור לנו אתגר חדש' כדי להתחיל">>
\* the literals _handle_check_images looks for in the displayed topic.
\* "שגיאה ב" is the chunk "שגיאה" followed by a chunk that starts " ב".
PRESS_THE_BUTTON == <<"לחץ על הכפתור">>
SHGIA_B == <<"שגיאה", " ב">>

GENERATE_TOPIC_MESSAGE == <<"אתגר חדש">>
EVALUATE_MESSAGE == <<"הערך בבקשה את ההגשות הללו עבור האתגר הנוכחי.">>

NO_TOPIC_DISPLAYED == <<"אנא צור אתגר תחילה על ידי לחיצה על 'צור לנו אתגר חדש'.">>
TWO_IMAGES_REQUIRED == <<"יש להעלות שתי תמונות כדי לבדוק.">>
IMAGE_SERVICE_UNAVAILABLE == <<"שגיאה", " פנימית: שירות עיבוד התמונות אינו זמין.">>
EMPTY_CAPTION == <<"תיאור ריק">>

\* f"שגיאה ביצירת תיאור לתמונה {n}: {caption if caption else 'תיאור ריק'}"
CaptionFailure(n, caption) ==
    <<"שגיאה", " ב", "יצירת תיאור לתמונה ", n, ": ">>
        \o (IF Truthy(caption) THEN caption ELSE EMPTY_CAPTION)

\* "Error:" in caption or not caption
CaptionFailed(caption) == Contains(caption, ERROR_COLON) \/ ~Truthy(caption)

\* not current_topic_display or "לחץ על הכפתור" in ... or "שגיאה ב" in ...
NoValidTopicDisplayed(current_topic_display) ==
    \/ ~Truthy(current_topic_display)
    \/ Contains(current_topic_display, PRESS_THE_BUTTON)
    \/ Contains(current_topic_display, SHGIA_B)

\* {"caption1": caption1, "caption2": caption2}
CaptionsDict(caption1, caption2) ==
    [is_dict |-> TRUE, caption1 |-> caption1, caption2 |-> caption2]

\* what gr.Image(type="pil") hands to a handler: None when nothing was
\* uploaded, else an image in the component's image_mode, "RGB" by default
UploadedImages == {NoImage, [is_image |-> TRUE, mode |-> "RGB"]}

\* GradioInterface: whether it exists and was given an ImageService, the
\* topic textbox, and the handler in progress: where it is, its arguments,
\* the captions it has, the calls of generate_caption that completed, the
\* calls of the agent it made, and what it returns
NoHandler ==
    [pc |-> "idle",
     handler |-> "",
     image1_pil |-> NoImage,
     image2_pil |-> NoImage,
     current_topic_display |-> NONE,
     caption1 |-> NONE,
     caption2 |-> NONE,
     captions_completed |-> 0,
     agent_calls |-> 0,
     response |-> Pending]

NoGradioInterface ==
    [constructed |-> FALSE,
     image_service |-> FALSE,
     topic_output |-> TOPIC_OUTPUT_INITIAL,
     run |-> NoHandler]

\* GradioInterface(agent, image_service) and create_ui(): image_service is
\* the constructed ImageService, or None
GradioInterface_init ==
    /\ ~ui.constructed
    /\ \E given \in BOOLEAN :
         /\ given => image_service.state = "constructed"
         /\ ui' = [NoGradioInterface EXCEPT !.constructed = TRUE,
                                            !.image_service = given]
    /\ UNCHANGED <<current_challenge_topic, inv, tool, gemini_service, image_service>>

\* create_topic_button.click: _handle_generate_topic up to its await of the
\* agent, which is suspended in the challenge tool, or has returned the rules
GradioInterface_handle_generate_topic ==
    /\ ui.constructed
    /\ ui.run.pc = "idle"
    /\ inv[1].pc = "idle"
    /\ inv' = [inv EXCEPT ![1] = Dispatch(current_challenge_topic,
                                          GENERATE_TOPIC_MESSAGE, NoImageCaptions)]
    /\ ui' = [ui EXCEPT !.run = [NoHandler EXCEPT !.pc = "await_agent",
                                                  !.handler = "generate_topic",
                                                  !.agent_calls = 1]]
    /\ UNCHANGED <<current_challenge_topic, tool, gemini_service, image_service>>

\* _handle_check_images(image1_pil, image2_pil, current_topic_display) up to
\* its await of the first caption, or to its return: the handler's record
\* after it
CheckImagesCall(image_service_given, image1_pil, image2_pil, current_topic_display) ==
    LET called == [NoHandler EXCEPT !.handler = "check_images",
                                    !.image1_pil = image1_pil,
                                    !.image2_pil = image2_pil,
                                    !.current_topic_display = current_topic_display]
    IN  IF NoValidTopicDisplayed(current_topic_display)
        THEN [called EXCEPT !.pc = "returned",
                            !.response = Return(NO_TOPIC_DISPLAYED)]
        ELSE IF ~image1_pil.is_image \/ ~image2_pil.is_image
        THEN [called EXCEPT !.pc = "returned",
                            !.response = Return(TWO_IMAGES_REQUIRED)]
        ELSE IF ~image_service_given
        THEN [called EXCEPT !.pc = "returned",
                            !.response = Return(IMAGE_SERVICE_UNAVAILABLE)]
        ELSE [called EXCEPT !.pc = "await_caption1"]

\* check_button.click with the two images and the value of the topic textbox
GradioInterface_handle_check_images ==
    /\ ui.constructed
    /\ ui.run.pc = "idle"
    /\ image_service.call.pc = "idle"
    /\ \E image1_pil \in UploadedImages, image2_pil \in UploadedImages :
         LET run == CheckImagesCall(ui.image_service, image1_pil, image2_pil,
                                    ui.topic_output)
         IN  /\ ui' = [ui EXCEPT !.run = run]
             /\ image_service' =
                    IF run.pc = "await_caption1"
                    THEN [image_service EXCEPT !.call =
                              GenerateCaptionCall(image_service, image1_pil)]
                    ELSE image_service
    /\ UNCHANGED <<current_challenge_topic, inv, tool, gemini_service>>

\* faulty variant: the evaluation is requested as soon as the first caption
\* is there, with that caption for both images
GradioInterface_check_images_caption1_pickFirst ==
    /\ ui.run.pc = "await_caption1"
    /\ image_service.call.pc = "returned"
    /\ inv[1].pc = "idle"
    /\ LET caption1 == image_service.call.result.value
       IN  IF CaptionFailed(caption1)
           THEN /\ ui' = [ui EXCEPT !.run.pc = "returned",
                                    !.run.caption1 = caption1,
                                    !.run.captions_completed = 1,
                                    !.run.response =
                                        Return(CaptionFailure("1", caption1))]
                /\ image_service' = [image_service EXCEPT !.call = IdleCaptionCall]
                /\ UNCHANGED inv
           ELSE /\ ui' = [ui EXCEPT !.run.pc = "await_agent",
                                    !.run.caption1 = caption1,
                                    !.run.captions_completed = 1,
                                    !.run.agent_calls = 1]
                /\ image_service' = [image_service EXCEPT !.call = IdleCaptionCall]
                /\ inv' = [inv EXCEPT ![1] =
                              Dispatch(current_challenge_topic, EVALUATE_MESSAGE,
                                       CaptionsDict(caption1, caption1))]
    /\ UNCHANGED <<current_challenge_topic, tool, gemini_service>>

\* the first caption is there: _handle_check_images up to its await of the
\* second caption, or to its return when the first one failed
GradioInterface_check_images_caption1 ==
    /\ ui.run.pc = "await_caption1"
    /\ image_service.call.pc = "returned"
    /\ LET caption1 == image_service.call.result.value
       IN  IF CaptionFailed(caption1)
           THEN /\ ui' = [ui EXCEPT !.run.pc = "returned",
                                    !.run.caption1 = caption1,
                                    !.run.captions_completed = 1,
                                    !.run.response =
                                        Return(CaptionFailure("1", caption1))]
                /\ image_service' = [image_service EXCEPT !.call = IdleCaptionCall]
                /\ UNCHANGED inv
           ELSE /\ ui' = [ui EXCEPT !.run.pc = "await_caption2",
                                    !.run.caption1 = caption1,
                                    !.run.captions_completed = 1]
                /\ image_service' =
                       [image_service EXCEPT !.call =
                            GenerateCaptionCall(image_service, ui.run.image2_pil)]
                /\ UNCHANGED inv
    /\ UNCHANGED <<current_challenge_topic, tool, gemini_service>>

\* the second caption is there: _handle_check_images up to its await of the
\* agent, or to its return when the second caption failed
GradioInterface_check_images_caption2 ==
    /\ ui.run.pc = "await_caption2"
    /\ image_service.call.pc = "returned"
    /\ inv[1].pc = "idle"
    /\ LET caption2 == image_service.call.result.value
       IN  IF CaptionFailed(caption2)
           THEN /\ ui' = [ui EXCEPT !.run.pc = "returned",
                                    !.run.caption2 = caption2,
                                    !.run.captions_completed = 2,
                                    !.run.response =
                                        Return(CaptionFailure("2", caption2))]
                /\ UNCHANGED inv
           ELSE /\ ui' = [ui EXCEPT !.run.pc = "await_agent",
                                    !.run.caption2 = caption2,
                                    !.run.captions_completed = 2,
                                    !.run.agent_calls = 1]
                /\ inv' = [inv EXCEPT ![1] =
                              Dispatch(current_challenge_topic, EVALUATE_MESSAGE,
                                       CaptionsDict(ui.run.caption1, caption2))]
    /\ image_service' = [image_service EXCEPT !.call = IdleCaptionCall]
    /\ UNCHANGED <<current_challenge_topic, tool, gemini_service>>

\* the agent has returned: the handler returns the agent's response
GradioInterface_handler_return ==
    /\ ui.run.pc = "await_agent"
    /\ inv[1].pc = "returned"
    /\ ui' = [ui EXCEPT !.run.pc = "returned",
                        !.run.response = inv[1].response]
    /\ inv' = [inv EXCEPT ![1] = IdleInvocation]
    /\ UNCHANGED <<current_challenge_topic, tool, gemini_service, image_service>>

\* Gradio writes what the handler returned to the handler's output
\* component: topic_output for _handle_generate_topic, and for
\* _handle_check_images result_output, which no handler reads
GradioInterface_render ==
    /\ ui.run.pc = "returned"
    /\ ui' = [ui EXCEPT !.run = NoHandler,
                        !.topic_output =
                            IF ui.run.handler = "generate_topic"
                            THEN ui.run.response.value ELSE @]
    /\ UNCHANGED <<current_challenge_topic, inv, tool, gemini_service, image_service>>

----------------------------------------------------------------------------
(* Specifications *)

Init ==
    /\ current_challenge_topic = NONE
    /\ inv = [i \in Slots |-> IdleInvocation]
    /\ tool = IdleTool
    /\ gemini_service = NoGeminiService
    /\ image_service = NoImageService
    /\ ui = NoGradioInterface

\* Spec: one agent over a GeminiService, its caller serializing the
\* invocations (one in flight at a time, in slot 1).
Next ==
    \/ process_user_interaction(1)
    \/ ResumeChallenge(1)
    \/ ResumeEvaluation(1)
    \/ ResumeGeneric(1)
    \/ Collect(1)

Spec == Init /\ [][Next]_vars

\* SpecInterleaved: one agent whose callers do not serialize: every slot
\* holds an invocation, and the invocations interleave at their awaits (one
\* event loop: a step of one coroutine runs from an await to the next).
\* The callers send a new-challenge message or a plain message, with two
\* captions or without captions; the backend generates a topic, another
\* topic, or nothing usable.
ConcurrentMessages == {<<"אתגר חדש">>, <<"Hello">>}
ConcurrentCaptions ==
    {NoImageCaptions,
     [is_dict |-> TRUE, caption1 |-> <<"בננה">>, caption2 |-> <<"צלחת", "ריקה">>]}
ConcurrentOutcomes ==
    {Return(<<"כובע">>), Return(<<"מגדל">>), Return(LLM_NO_CONTENT)}

NextInterleaved ==
    \E i \in Slots :
        \/ process_user_interactionOn(i, ConcurrentMessages, ConcurrentCaptions)
        \/ ResumeChallengeOn(i, ConcurrentOutcomes)
        \/ ResumeEvaluationOn(i, ConcurrentOutcomes)
        \/ ResumeGenericOn(i, ConcurrentOutcomes)
        \/ Collect(i)

SpecInterleaved == Init /\ [][NextInterleaved]_vars

\* SpecInterleavedFair: SpecInterleaved with a backend whose calls complete:
\* asyncio.to_thread resumes the awaiting coroutine once
\* client.generate_content has returned or raised in its thread.
BackendCompletes ==
    \A i \in Slots :
        /\ WF_vars(ResumeChallengeOn(i, ConcurrentOutcomes))
        /\ WF_vars(ResumeEvaluationOn(i, ConcurrentOutcomes))
        /\ WF_vars(ResumeGenericOn(i, ConcurrentOutcomes))

SpecInterleavedFair == SpecInterleaved /\ BackendCompletes

\* SpecTools: the two tools called directly, over any gemini_service.
NextTools ==
    \/ ChallengeGenerationTool_call
    \/ EvaluationTool_call
    \/ Tool_resume
    \/ Tool_collect

SpecTools == Init /\ [][NextTools]_vars

\* SpecServices: a GeminiService and an ImageService are constructed, and
\* generate_text and generate_caption are called on them directly.
NextServices ==
    \/ GeminiService_init
    \/ GeminiService_generate_text
    \/ GeminiService_generate_text_resume
    \/ GeminiService_collect
    \/ ImageService_init
    \/ ImageService_generate_caption
    \/ ImageService_generate_caption_resume
    \/ ImageService_collect

SpecServices == Init /\ [][NextServices]_vars

\* SpecUI: the Gradio handlers over an ImageService and the agent, one
\* handler at a time.
NextUI ==
    \/ ImageService_init
    \/ GradioInterface_init
    \/ GradioInterface_handle_generate_topic
    \/ GradioInterface_handle_check_images
    \/ ImageService_generate_caption_resume
    \/ GradioInterface_check_images_caption1
    \/ GradioInterface_check_images_caption2
    \/ ResumeChallenge(1)
    \/ ResumeEvaluation(1)
    \/ GradioInterface_handler_return
    \/ GradioInterface_render

SpecUI == Init /\ [][NextUI]_vars

----------------------------------------------------------------------------
(* Vocabulary of the properties *)

MentionsRules(m) ==
    \E k \in DOMAIN m : m[k] \in {"כללים", "הוראות", "איך משחקים"}

MentionsNewChallenge(m) ==
    \E k \in DOMAIN m : m[k] \in {"אתגר חדש", "צור אתגר"}

BothCaptionsGiven(c) ==
    c.is_dict /\ c.caption1 \notin {NONE, <<>>} /\ c.caption2 \notin {NONE, <<>>}

\* the kinds of request, of an invocation record r
RulesRequest(r) == MentionsRules(r.user_message)
NewChallengeRequest(r) ==
    MentionsNewChallenge(r.user_message) /\ ~MentionsRules(r.user_message)
EvaluationRequest(r) ==
    /\ ~MentionsRules(r.user_message)
    /\ ~MentionsNewChallenge(r.user_message)
    /\ BothCaptionsGiven(r.image_captions)
FallbackRequest(r) ==
    /\ ~MentionsRules(r.user_message)
    /\ ~MentionsNewChallenge(r.user_message)
    /\ ~BothCaptionsGiven(r.image_captions)

HasApologyMarker(t) ==
    \E k \in DOMAIN t : t[k] \in {"מצטער", "שגיאה"}

\* the step in which slot i is invoked
CallStep(i) == inv[i].pc = "idle" /\ inv'[i].pc # "idle"

----------------------------------------------------------------------------
(* Properties of process_user_interaction, under Spec *)

\* C1: when an invocation with a new-challenge keyword and no rules keyword
\* has returned, the tool returned a text, and current_challenge_topic is
\* that text if it holds neither "מצטער" nor "שגיאה", and None if it does.
C1_TopicAfterNewChallenge ==
    \A i \in Slots :
        (inv[i].pc = "returned" /\ NewChallengeRequest(inv[i]))
            => /\ inv[i].challenge_tool_calls = 1
               /\ inv[i].tool_result.kind = "return"
               /\ current_challenge_topic =
                      IF HasApologyMarker(inv[i].tool_result.value)
                      THEN NONE ELSE inv[i].tool_result.value

\* a new-challenge invocation has returned and the topic is the text the
\* tool returned
C1_Witness ==
    \E i \in Slots :
        /\ inv[i].pc = "returned"
        /\ NewChallengeRequest(inv[i])
        /\ ~HasApologyMarker(inv[i].tool_result.value)
        /\ current_challenge_topic = inv[i].tool_result.value
        /\ current_challenge_topic \notin {NONE, <<>>}

\* C2: an invocation whose message holds a rules keyword and a
\* new-challenge keyword never waits for the challenge tool: it has
\* returned, with the rules text, and called ChallengeGenerationTool zero
\* times.
C2_RulesBeforeNewChallenge ==
    \A i \in Slots :
        (/\ inv[i].pc # "idle"
         /\ MentionsRules(inv[i].user_message)
         /\ MentionsNewChallenge(inv[i].user_message))
            => /\ inv[i].pc = "returned"
               /\ inv[i].response = Return(game_rules)
               /\ inv[i].challenge_tool_calls = 0

\* a message with both kinds of keyword was answered with the rules
C2_Witness ==
    \E i \in Slots :
        /\ inv[i].pc = "returned"
        /\ MentionsRules(inv[i].user_message)
        /\ MentionsNewChallenge(inv[i].user_message)
        /\ inv[i].response = Return(game_rules)

\* C3: an evaluation request made while current_challenge_topic is None
\* returns at once with the "generate a challenge first" text, with no
\* call to EvaluationTool (and none to generate_text).
C3_EvaluationBeforeChallenge ==
    [][\A i \in Slots :
          (/\ CallStep(i)
           /\ EvaluationRequest(inv'[i])
           /\ current_challenge_topic = NONE)
              => /\ inv'[i].pc = "returned"
                 /\ inv'[i].response = Return(NO_CHALLENGE_YET)
                 /\ inv'[i].evaluation_tool_calls = 0
                 /\ inv'[i].generate_text_calls = 0]_vars

\* an evaluation request was refused for want of a challenge
C3_Witness ==
    \E i \in Slots :
        /\ inv[i].pc = "returned"
        /\ EvaluationRequest(inv[i])
        /\ current_challenge_topic = NONE
        /\ inv[i].response = Return(NO_CHALLENGE_YET)

\* C4: in an evaluation request with a challenge active, EvaluationTool is
\* invoked once, with the current topic and the caller's two captions in
\* their places, and the response is the results banner, a newline and the
\* tool's text.
C4_EvaluationCall ==
    \A i \in Slots :
        (/\ inv[i].pc # "idle"
         /\ EvaluationRequest(inv[i])
         /\ current_challenge_topic \notin {NONE, <<>>})
            => /\ inv[i].evaluation_tool_calls = 1
               /\ inv[i].eval_input =
                      [topic |-> current_challenge_topic,
                       caption1 |-> inv[i].image_captions.caption1,
                       caption2 |-> inv[i].image_captions.caption2]
               /\ inv[i].pc = "returned"
                      => /\ inv[i].tool_result.kind = "return"
                         /\ inv[i].response =
                                Return(<<"תוצאות ההערכה:", "\n">>
                                       \o inv[i].tool_result.value)

\* an evaluation of two different captions has returned the tool's verdict
C4_Witness ==
    \E i \in Slots :
        /\ inv[i].pc = "returned"
        /\ EvaluationRequest(inv[i])
        /\ inv[i].image_captions.caption1 # inv[i].image_captions.caption2
        /\ inv[i].evaluation_tool_calls = 1
        /\ inv[i].eval_input.topic = current_challenge_topic
        /\ ~HasApologyMarker(inv[i].tool_result.value)

\* C5: no step of an evaluation request, neither its call nor its return,
\* changes current_challenge_topic.
C5_EvaluationKeepsTopic ==
    [][\A i \in Slots :
          (\/ CallStep(i) /\ EvaluationRequest(inv'[i])
           \/ inv[i].pc = "await_evaluation" /\ inv'[i].pc = "returned")
              => current_challenge_topic' = current_challenge_topic]_vars

\* an evaluation has failed and the topic is still active
C5_Witness ==
    \E i \in Slots :
        /\ inv[i].pc = "returned"
        /\ EvaluationRequest(inv[i])
        /\ inv[i].tool_result.kind = "return"
        /\ HasApologyMarker(inv[i].tool_result.value)
        /\ current_challenge_topic \notin {NONE, <<>>}

\* C6: a request with a rules keyword returns at once with the rules text,
\* whatever the topic and the captions; it leaves current_challenge_topic
\* as it was and calls neither tool nor generate_text.
C6_RulesRequest ==
    [][\A i \in Slots :
          (CallStep(i) /\ RulesRequest(inv'[i]))
              => /\ inv'[i].pc = "returned"
                 /\ inv'[i].response = Return(game_rules)
                 /\ current_challenge_topic' = current_challenge_topic
                 /\ inv'[i].challenge_tool_calls = 0
                 /\ inv'[i].evaluation_tool_calls = 0
                 /\ inv'[i].generate_text_calls = 0]_vars

\* the rules were given with a challenge active and two captions supplied
C6_Witness ==
    \E i \in Slots :
        /\ inv[i].pc = "returned"
        /\ RulesRequest(inv[i])
        /\ BothCaptionsGiven(inv[i].image_captions)
        /\ current_challenge_topic \notin {NONE, <<>>}
        /\ inv[i].response = Return(game_rules)

\* C7: the response of a new-challenge request is the banner, a newline and
\* the topic when the tool's text holds no apology marker, and the tool's
\* text alone when it does.
C7_NewChallengeResponse ==
    \A i \in Slots :
        (inv[i].pc = "returned" /\ NewChallengeRequest(inv[i]))
            => inv[i].response =
                   IF HasApologyMarker(inv[i].tool_result.value)
                   THEN Return(inv[i].tool_result.value)
                   ELSE Return(<<"האתגר החדש שלכם הוא:", "\n">>
                               \o inv[i].tool_result.value)

\* a new-challenge request has returned the tool's apology, without banner
C7_Witness ==
    \E i \in Slots :
        /\ inv[i].pc = "returned"
        /\ NewChallengeRequest(inv[i])
        /\ HasApologyMarker(inv[i].tool_result.value)
        /\ inv[i].response = inv[i].tool_result

\* the texts GeminiService.generate_text returns when the backend call
\* failed: they hold a chunk that no generated text holds
GeminiFailureTexts ==
    {LLM_NO_CONTENT} \cup {LLM_CALL_FAILED \o m : m \in ExceptionMessages}

\* C8: the response of a fallback request is a text the backend generated
\* or the "not sure how to respond" text, never the text of a backend
\* failure.
C8_FallbackHidesFailure ==
    \A i \in Slots :
        (inv[i].pc = "returned" /\ FallbackRequest(inv[i]))
            => /\ inv[i].response.kind = "return"
               /\ inv[i].response.value \in (Texts \ {<<>>}) \cup {NOT_SURE}
               /\ inv[i].response.value \notin GeminiFailureTexts

----------------------------------------------------------------------------
(* Properties of the tools, under SpecTools *)

\* C9: EvaluationTool._execute with an empty topic, caption1 or caption2
\* has returned the missing-data text and has not called generate_text.
C9_EvaluationToolValidates ==
    (/\ tool.pc # "idle"
     /\ tool.name = "SubmissionEvaluator"
     /\ \/ tool.inputs.topic = <<>>
        \/ tool.inputs.caption1 = <<>>
        \/ tool.inputs.caption2 = <<>>)
        => /\ tool.pc = "returned"
           /\ tool.result =
                  Return(<<"שגיאה", ": יש לספק את נושא האתגר ושני תיאורי תמונות לצורך הערכה.">>)
           /\ tool.generate_text_calls = 0
           /\ tool.outcome = Pending

\* the tool has refused inputs in which only the topic is empty
C9_Witness ==
    /\ tool.pc = "returned"
    /\ tool.name = "SubmissionEvaluator"
    /\ tool.inputs.topic = <<>>
    /\ tool.inputs.caption1 # <<>>
    /\ tool.inputs.caption2 # <<>>
    /\ tool.generate_text_calls = 0

\* the outcome of generate_text is a usable text
UsableText(outcome) ==
    /\ outcome.kind = "return"
    /\ outcome.value # <<>>
    /\ \A k \in DOMAIN outcome.value :
           outcome.value[k] \notin {"Placeholder response", "Error:"}

\* the fixed apology texts of a tool
ApologiesOf(name) ==
    IF name = "ChallengeGenerator"
    THEN {CHALLENGE_APOLOGY, CHALLENGE_INTERNAL_ERROR}
    ELSE {EVALUATION_APOLOGY, EVALUATION_INTERNAL_ERROR}

\* C10: a tool that awaited generate_text returns a text, never raises:
\* the text of generate_text when it is usable, and one of the tool's fixed
\* apologies when it is empty, a placeholder, an "Error:" text or an
\* exception.
C10_ToolsAbsorbFailures ==
    tool.pc = "returned"
        => /\ tool.result.kind = "return"
           /\ tool.outcome # Pending
                  => IF UsableText(tool.outcome)
                     THEN tool.result.value = tool.outcome.value
                     ELSE tool.result.value \in ApologiesOf(tool.name)

\* generate_text raised and the challenge tool returned its fixed text
C10_Witness ==
    /\ tool.pc = "returned"
    /\ tool.name = "ChallengeGenerator"
    /\ tool.outcome.kind = "raise"
    /\ tool.result = Return(CHALLENGE_INTERNAL_ERROR)

----------------------------------------------------------------------------
(* Properties of ImageService and GeminiService, under SpecServices *)

\* the loading of the BLIP processor or model failed in the constructor
LoadingFailed == image_service.load_error.kind = "raise"

\* a call of generate_caption(None) has returned
NoImageCallReturned ==
    /\ image_service.call.pc = "returned"
    /\ ~image_service.call.image_pil.is_image

BackendText(response) ==
    LET RECURSIVE PartsText(_)
        PartsText(ps) ==
            IF ps = <<>> THEN <<>>
            ELSE (IF Head(ps).has_text THEN Head(ps).text ELSE <<>>)
                     \o PartsText(Tail(ps))
    IN  IF PartsText(response.parts) # <<>> THEN PartsText(response.parts)
        ELSE IF response.text.kind = "value" THEN response.text.value
        ELSE <<>>

\* C12: a call of generate_text with a non-empty prompt, to which the
\* backend responded with a non-empty text, returns exactly that text.
C12_ReturnsBackendText ==
    (/\ gemini_service.call.pc = "returned"
     /\ gemini_service.call.prompt # <<>>
     /\ gemini_service.call.backend.kind = "return"
     /\ BackendText(gemini_service.call.backend.value) # <<>>)
        => gemini_service.call.result =
               Return(BackendText(gemini_service.call.backend.value))

\* generate_text has returned a text that the backend sent in two parts
C12_Witness ==
    /\ gemini_service.call.pc = "returned"
    /\ gemini_service.call.prompt # <<>>
    /\ gemini_service.call.backend.kind = "return"
    /\ Len(gemini_service.call.backend.value.parts) = 2
    /\ Len(gemini_service.call.result.value) = 2
    /\ gemini_service.call.result.value
           = gemini_service.call.backend.value.text.value

\* C13: generate_text never raises; an exception of the backend yields
\* "Error: LLM call failed - <message>", a response without usable text
\* yields "Error: LLM returned no usable content or request was blocked.",
\* and the two results differ.
C13_FailureKinds ==
    gemini_service.call.pc = "returned"
        => /\ gemini_service.call.result.kind = "return"
           /\ gemini_service.call.backend.kind = "raise"
                  => gemini_service.call.result.value =
                         <<"Error:", " LLM call failed - ">>
                             \o gemini_service.call.backend.value
           /\ (/\ gemini_service.call.backend.kind = "return"
               /\ BackendText(gemini_service.call.backend.value) = <<>>)
                  => gemini_service.call.result.value =
                         <<"Error:", " LLM returned no usable content or request was blocked.">>

\* C15: when the loading of the processor or of the model fails, the
\* constructor of ImageService raises and returns no instance.
C15_LoadFailureRaises ==
    (image_service.state # "unconstructed" /\ LoadingFailed)
        => /\ image_service.init_outcome.kind = "raise"
           /\ image_service.state # "constructed"

\* C16: on an instance whose loading failed, the loading ran once, model
\* and processor are still not both there, and every call of
\* generate_caption has returned "model not available" without handing an
\* image to the processor or running the model.
C16_FailedLoadStaysUnavailable ==
    (image_service.state = "constructed" /\ LoadingFailed)
        => /\ image_service.loads = 1
           /\ ~(image_service.model /\ image_service.processor)
           /\ image_service.call.pc # "idle"
                  => /\ image_service.call.pc = "returned"
                     /\ image_service.call.result =
                            Return(<<"Error:", " Image captioning model not available.">>)
                     /\ image_service.call.inference_runs = 0
                     /\ image_service.call.convert_calls = 0
                     /\ ~image_service.call.processor_input.is_image

\* the processor was loaded and the model was not, and a call with an image
\* has returned "model not available"
C16_Witness ==
    /\ image_service.state = "constructed"
    /\ LoadingFailed
    /\ image_service.processor
    /\ image_service.call.pc = "returned"
    /\ image_service.call.image_pil.is_image
    /\ image_service.call.result = Return(MODEL_NOT_AVAILABLE)

\* C17: when the credential lookup or the creation of the client raises,
\* the constructor of GeminiService raises RuntimeError and there is no
\* instance to call; no call of generate_text reports a missing client.
C17_ConfigurationFailureRaises ==
    /\ (\/ gemini_service.credentials.kind = "raise"
        \/ gemini_service.client_creation.kind = "raise")
           => /\ gemini_service.state = "failed"
              /\ gemini_service.init_outcome.kind = "raise"
              /\ gemini_service.init_outcome.type = "RuntimeError"
              /\ gemini_service.call.pc = "idle"
    /\ gemini_service.call.pc = "returned"
           => gemini_service.call.result.value
                  # <<"Error:", " Gemini client not initialized.">>

\* the credential lookup raised ValueError and the constructor raised
\* RuntimeError with the configuration message
C17_Witness ==
    /\ gemini_service.state = "failed"
    /\ gemini_service.credentials.kind = "raise"
    /\ gemini_service.credentials.type = "ValueError"
    /\ gemini_service.init_outcome =
           Exception("RuntimeError",
                     INIT_FAILED_CONFIGURATION \o gemini_service.credentials.value)

\* C18: the image handed to the processor is in RGB mode; it was converted
\* once when the argument was in another mode and not at all when the
\* argument was in RGB mode; the model runs only on such an image.
C18_ProcessorGetsRGB ==
    /\ image_service.call.inference_runs > 0
           => image_service.call.processor_input.is_image
    /\ image_service.call.processor_input.is_image
           => /\ image_service.call.processor_input.mode = "RGB"
              /\ image_service.call.convert_calls =
                     IF image_service.call.image_pil.mode = "RGB" THEN 0 ELSE 1

\* a grayscale image was captioned: the processor got it in RGB mode
C18_Witness ==
    /\ image_service.call.pc = "returned"
    /\ image_service.call.image_pil.mode = "L"
    /\ image_service.call.processor_input.mode = "RGB"
    /\ image_service.call.convert_calls = 1
    /\ image_service.call.inference_runs = 1
    /\ image_service.call.result.value \in Captions

----------------------------------------------------------------------------
(* Properties of the agent over time, under Spec *)

\* C14: an invocation of process_user_interaction has at most one call of
\* client.generate_content completed for it: none while it waits for the
\* first, and when it has returned as many as it made calls of
\* generate_text, which is at most one, also when that call failed.
C14_NoRetry ==
    \A i \in Slots :
        /\ inv[i].generate_content_calls <= 1
        /\ inv[i].generate_text_calls <= 1
        /\ inv[i].pc \in {"await_challenge", "await_evaluation", "await_generic"}
               => inv[i].generate_content_calls = 0
        /\ inv[i].pc = "returned"
               => inv[i].generate_content_calls = inv[i].generate_text_calls

\* a fallback invocation has returned the text of a failed backend call,
\* after one call
C14_Witness ==
    \E i \in Slots :
        /\ inv[i].pc = "returned"
        /\ inv[i].response.value \in GeminiFailureTexts
        /\ inv[i].generate_content_calls = 1

\* the step in which the new-challenge invocation of slot i returns
NewChallengeReturns(i) ==
    inv[i].pc = "await_challenge" /\ inv'[i].pc = "returned"

\* C20: current_challenge_topic is None at first; the return of a
\* new-challenge invocation sets it to the topic that invocation got, or to
\* None if it failed; no other step of any invocation alters it.  So after
\* any sequence of invocations it is what the most recent new-challenge
\* invocation left.
C20_TopicOfLastNewChallenge ==
    /\ current_challenge_topic = NONE
    /\ [][IF \E i \in Slots : NewChallengeReturns(i)
          THEN \A i \in Slots :
                   NewChallengeReturns(i)
                       => current_challenge_topic' =
                              IF HasApologyMarker(inv'[i].tool_result.value)
                              THEN NONE ELSE inv'[i].tool_result.value
          ELSE current_challenge_topic' = current_challenge_topic]_vars

\* a fallback invocation made after a successful new-challenge invocation
\* has returned and the topic is still there
C20_Witness ==
    \E i \in Slots :
        /\ inv[i].pc = "returned"
        /\ FallbackRequest(inv[i])
        /\ inv[i].generate_content_calls = 1
        /\ current_challenge_topic \notin {NONE, <<>>}

----------------------------------------------------------------------------
(* Further properties of process_user_interaction, under Spec *)

\* C21: the return of a new-challenge invocation whose generation failed
\* sets current_challenge_topic to None, whatever it was; the collection of
\* a response leaves the topic as it is; and an evaluation request with two
\* captions made while the topic is None returns the "generate a challenge
\* first" message without calling EvaluationTool.
C21_FailedNewChallengeClears ==
    [][\A i \in Slots :
          /\ (NewChallengeReturns(i)
                 /\ HasApologyMarker(inv'[i].tool_result.value))
                => /\ current_challenge_topic' = NONE
                   /\ inv'[i].response = inv'[i].tool_result
          /\ (inv[i].pc = "returned" /\ inv'[i].pc = "idle")
                => current_challenge_topic' = current_challenge_topic
          /\ (CallStep(i)
                 /\ EvaluationRequest(inv'[i])
                 /\ current_challenge_topic = NONE)
                => /\ inv'[i].response = Return(NO_CHALLENGE_YET)
                   /\ inv'[i].evaluation_tool_calls = 0]_vars

\* a new-challenge invocation has returned the tool's apology and no
\* challenge is active
C21_Witness ==
    \E i \in Slots :
        /\ inv[i].pc = "returned"
        /\ NewChallengeRequest(inv[i])
        /\ inv[i].response = Return(CHALLENGE_APOLOGY)
        /\ current_challenge_topic = NONE

\* C22: an invocation whose message holds a new-challenge keyword and no
\* rules keyword, and that came with two non-empty captions, is a
\* new-challenge invocation: it called ChallengeGenerationTool once and
\* EvaluationTool never, and built no evaluation input from the captions.
C22_NewChallengeIgnoresCaptions ==
    \A i \in Slots :
        (/\ inv[i].pc # "idle"
         /\ NewChallengeRequest(inv[i])
         /\ BothCaptionsGiven(inv[i].image_captions))
            => /\ inv[i].pc \in {"await_challenge", "returned"}
               /\ inv[i].challenge_tool_calls = 1
               /\ inv[i].evaluation_tool_calls = 0
               /\ inv[i].eval_input = NoEvaluationInput
               /\ inv[i].prompt = challenge_prompt_template
               /\ inv[i].tool_result # Pending <=> inv[i].pc = "returned"

\* a new-challenge request that came with two captions has set the topic
C22_Witness ==
    \E i \in Slots :
        /\ inv[i].pc = "returned"
        /\ NewChallengeRequest(inv[i])
        /\ BothCaptionsGiven(inv[i].image_captions)
        /\ current_challenge_topic = inv[i].tool_result.value

\* C23: a request without rules or new-challenge keyword, whose captions
\* are absent or not both non-empty, makes one call of generate_text with
\* the generic prompt and no call of a tool, and neither its call nor its
\* return alters current_challenge_topic.
C23_FallbackRequest ==
    [][\A i \in Slots :
          /\ (CallStep(i) /\ FallbackRequest(inv'[i]))
                => /\ inv'[i].pc = "await_generic"
                   /\ inv'[i].evaluation_tool_calls = 0
                   /\ inv'[i].challenge_tool_calls = 0
                   /\ inv'[i].generate_text_calls = 1
                   /\ current_challenge_topic' = current_challenge_topic
          /\ (inv[i].pc = "await_generic" /\ inv'[i] # inv[i])
                => /\ inv'[i].pc = "returned"
                   /\ inv'[i].evaluation_tool_calls = 0
                   /\ inv'[i].challenge_tool_calls = 0
                   /\ inv'[i].generate_text_calls = 1
                   /\ current_challenge_topic' = current_challenge_topic]_vars

\* a request with only caption1 non-empty has returned from the fallback
\* while a challenge is active
C23_Witness ==
    \E i \in Slots :
        /\ inv[i].pc = "returned"
        /\ FallbackRequest(inv[i])
        /\ inv[i].image_captions.is_dict
        /\ inv[i].image_captions.caption1 \notin {NONE, <<>>}
        /\ inv[i].image_captions.caption2 \in {NONE, <<>>}
        /\ inv[i].generate_text_calls = 1
        /\ current_challenge_topic \notin {NONE, <<>>}

\* C26: current_challenge_topic is None or a non-empty text that holds
\* none of "מצטער", "שגיאה", "Error:" and "Placeholder response".
C26_TopicIsNeverAFailureText ==
    \/ current_challenge_topic = NONE
    \/ /\ current_challenge_topic # <<>>
       /\ \A k \in DOMAIN current_challenge_topic :
              current_challenge_topic[k] \notin
                  {"מצטער", "שגיאה", "Error:", "Placeholder response"}

\* a topic of two chunks is active
C26_Witness ==
    /\ current_challenge_topic # NONE
    /\ Len(current_challenge_topic) = 2

\* C30: an invocation that called EvaluationTool gave it a non-empty topic
\* and two non-empty captions, so the tool did not return its missing-data
\* error: it called generate_text once, and when the invocation has
\* returned, one call of the backend has completed for it.
C30_EvaluationInputsComplete ==
    \A i \in Slots :
        inv[i].evaluation_tool_calls > 0
            => /\ inv[i].evaluation_tool_calls = 1
               /\ inv[i].eval_input.topic \notin {NONE, <<>>}
               /\ inv[i].eval_input.caption1 \notin {NONE, <<>>}
               /\ inv[i].eval_input.caption2 \notin {NONE, <<>>}
               /\ inv[i].tool_result # Return(EVALUATION_MISSING_DATA)
               /\ inv[i].generate_text_calls = 1
               /\ inv[i].pc = "returned" => inv[i].generate_content_calls = 1

\* an evaluation of two equal captions has returned after one backend call
C30_Witness ==
    \E i \in Slots :
        /\ inv[i].pc = "returned"
        /\ inv[i].evaluation_tool_calls = 1
        /\ inv[i].generate_content_calls = 1
        /\ inv[i].eval_input.caption1 = inv[i].eval_input.caption2

----------------------------------------------------------------------------
(* Properties of interleaved invocations, under SpecInterleaved *)

\* the invocation of slot i is suspended in an await
Awaiting(i) ==
    inv[i].pc \in {"await_challenge", "await_evaluation", "await_generic"}

\* C24: the step in which a new-challenge invocation returns a topic is the
\* step that writes current_challenge_topic, and the only steps that alter
\* current_challenge_topic are returns of new-challenge invocations: with
\* invocations interleaved, the topic in a successful new-challenge
\* response is current_challenge_topic of the state in which it returns.
C24_ResponseShowsTopicAtReturn ==
    [][/\ \A i \in Slots :
             (NewChallengeReturns(i)
                 /\ ~HasApologyMarker(inv'[i].tool_result.value))
                => inv'[i].response =
                       Return(NEW_CHALLENGE_BANNER \o NEWLINE
                                  \o current_challenge_topic')
       /\ current_challenge_topic' # current_challenge_topic
             => \E i \in Slots : NewChallengeReturns(i)]_vars

\* two new-challenge invocations that were in flight together have returned
\* different topics: each showed the topic of its own return
C24_Witness ==
    \E i, j \in Slots :
        /\ inv[i].pc = "returned" /\ inv[j].pc = "returned"
        /\ NewChallengeRequest(inv[i]) /\ NewChallengeRequest(inv[j])
        /\ inv[i].response =
               Return(NEW_CHALLENGE_BANNER \o NEWLINE \o current_challenge_topic)
        /\ ~HasApologyMarker(inv[j].tool_result.value)
        /\ inv[j].tool_result.value # current_challenge_topic

\* C29: an evaluation invocation that passed the active-challenge check has
\* given EvaluationTool the topic of that moment, in the input and in the
\* prompt, and while it waits for the backend no step, of a new-challenge
\* invocation or of any other, alters that input or that prompt.
C29_EvaluationKeepsItsTopic ==
    [][\A i \in Slots :
          /\ (CallStep(i) /\ inv'[i].pc = "await_evaluation")
                => /\ inv'[i].eval_input.topic = current_challenge_topic
                   /\ Contains(inv'[i].prompt, current_challenge_topic)
          /\ inv[i].pc = "await_evaluation"
                => /\ inv'[i].eval_input = inv[i].eval_input
                   /\ inv'[i].prompt = inv[i].prompt
                   /\ inv'[i].evaluation_tool_calls = 1]_vars

\* an evaluation waits for the backend with a topic that is no longer the
\* current one
C29_Witness ==
    \E i \in Slots :
        /\ inv[i].pc = "await_evaluation"
        /\ inv[i].eval_input.topic # current_challenge_topic

\* C25: under SpecInterleavedFair, where every backend call completes, an
\* invocation that is suspended in an await returns; an invocation returns
\* in its call step or is suspended with one call of generate_text made;
\* and the only step that takes an invocation out of an await is the
\* completion of its backend call, which makes it return a string: there
\* is no timeout and no cancellation.
C25_ReturnsWhenBackendReturns ==
    /\ \A i \in Slots : Awaiting(i) ~> inv[i].pc = "returned"
    /\ [][\A i \in Slots :
              /\ CallStep(i)
                    => \/ inv'[i].pc = "returned" /\ inv'[i].response.kind = "return"
                       \/ Awaiting(i)' /\ inv'[i].generate_text_calls = 1
              /\ (Awaiting(i) /\ inv'[i] # inv[i])
                    => /\ inv'[i].pc = "returned"
                       /\ inv'[i].response.kind = "return"
                       /\ inv'[i].generate_content_calls =
                              inv[i].generate_content_calls + 1]_vars

\* an invocation has returned after its backend call completed while
\* another one is still suspended
C25_Witness ==
    \E i, j \in Slots :
        /\ inv[i].pc = "returned"
        /\ inv[i].generate_content_calls = 1
        /\ inv[i].response.kind = "return"
        /\ inv[j].pc = "await_generic"

----------------------------------------------------------------------------
(* Properties of the Gradio handlers, under SpecUI *)

\* C19: while _handle_check_images has called the agent, both calls of
\* generate_caption have completed, none is in flight, and the agent was
\* given the two captions they returned.
C19_EvaluationAfterBothCaptions ==
    (/\ ui.run.handler = "check_images"
     /\ (ui.run.agent_calls > 0 \/ inv[1].pc # "idle"))
        => /\ ui.run.captions_completed = 2
           /\ ui.run.caption1 \notin {NONE, <<>>}
           /\ ui.run.caption2 \notin {NONE, <<>>}
           /\ image_service.call.pc = "idle"
           /\ inv[1].pc # "idle"
                  => inv[1].image_captions =
                         [is_dict |-> TRUE,
                          caption1 |-> ui.run.caption1,
                          caption2 |-> ui.run.caption2]

\* the agent evaluates two different captions for the check-images handler
C19_Witness ==
    /\ ui.run.handler = "check_images"
    /\ ui.run.pc = "await_agent"
    /\ inv[1].pc = "await_evaluation"
    /\ ui.run.captions_completed = 2
    /\ ui.run.caption1 # ui.run.caption2

\* the texts ImageService.generate_caption returns when captioning failed
CaptionFailureTexts ==
    {MODEL_NOT_AVAILABLE, NO_IMAGE_PROVIDED, CAPTION_ERROR, ASYNC_CAPTION_ERROR}

\* C27: in _handle_check_images, when generate_caption returned one of its
\* failure texts for an image, the handler has returned the error message
\* for that image and has not called the agent, and no failure text is a
\* caption of an evaluation.
C27_CaptionFailureStopsHandler ==
    ui.run.handler = "check_images"
        => /\ ui.run.caption1 \in CaptionFailureTexts
                => /\ ui.run.pc = "returned"
                   /\ ui.run.response = Return(CaptionFailure("1", ui.run.caption1))
                   /\ ui.run.agent_calls = 0
           /\ ui.run.caption2 \in CaptionFailureTexts
                => /\ ui.run.pc = "returned"
                   /\ ui.run.response = Return(CaptionFailure("2", ui.run.caption2))
                   /\ ui.run.agent_calls = 0
           /\ inv[1].pc # "idle"
                => /\ inv[1].image_captions.caption1 \notin CaptionFailureTexts
                   /\ inv[1].image_captions.caption2 \notin CaptionFailureTexts

\* C28: _handle_check_images called while the topic textbox shows its
\* initial value, or the apology or error text of a failed generation, has
\* returned the "create a challenge first" message, no call of
\* generate_caption was made and the agent was not called.
C28_NoValidTopicStopsCheck ==
    (/\ ui.run.handler = "check_images"
     /\ \/ ui.run.current_topic_display = TOPIC_OUTPUT_INITIAL
        \/ HasApologyMarker(ui.run.current_topic_display))
        => /\ ui.run.pc = "returned"
           /\ ui.run.response = Return(NO_TOPIC_DISPLAYED)
           /\ ui.run.captions_completed = 0
           /\ ui.run.agent_calls = 0
           /\ image_service.call.pc = "idle"

====
